---- MODULE Spec2Model ----
(***************************************************************************)
(* A model of arable_api: the authenticated GET wrapper get_response, the  *)
(* device enumeration get_devices, the per-schema fetch get_data, the      *)
(* per-day orchestration gather_data and the resume logic of the CLI main. *)
(* The program is single-threaded; one action is one stretch of code       *)
(* between two points where the environment acts (a clock reading, an HTTP *)
(* response).                                                              *)
(*                                                                         *)
(* Values.  Python's None, str and datetime values share variables, so     *)
(* each is a record with a tag t: None, Str(s), Dt(d), Name(n), List(l).   *)
(* A date string "YYYY-MM-DD" is the tuple <<YYYY, MM, DD>>; any other     *)
(* string met where a date is parsed is a tuple that is no calendar date.  *)
(* A datetime is the ordinal of its day (days since 2024-01-01): every use *)
(* of a datetime in the program formats it with a day-only pattern, so the *)
(* time of day is never observed.                                          *)
(***************************************************************************)
EXTENDS Integers, Sequences, FiniteSets, TLC

\* ------------------------------------------------------------- bounds
\* The clock reads days MinDay..MaxDay (ordinals; 59 is 2024-02-29).
MinDay == 59
MaxDay == 62

\* ------------------------------------------------------------ values
None == [t |-> "none"]
Str(s) == [t |-> "str", s |-> s]
Dt(d) == [t |-> "dt", d |-> d]
Name(n) == [t |-> "name", n |-> n]
List(l) == [t |-> "list", l |-> l]
Key(k) == [t |-> "key", k |-> k]
Table(rows) == [t |-> "df", rows |-> rows]
Return(v) == [kind |-> "return", value |-> v]
Raise(e) == [kind |-> "raise", exc |-> e]

\* ---------------------------------------------------------- calendar
DaysInMonth(m) ==
  IF m = 2 THEN 29 ELSE IF m \in {4, 6, 9, 11} THEN 30 ELSE 31

IsDate(s) ==
  /\ Len(s) = 3
  /\ s[1] = 2024
  /\ s[2] \in 1..12
  /\ s[3] \in 1..DaysInMonth(s[2])

RECURSIVE DaysBefore(_)
DaysBefore(m) == IF m = 1 THEN 0 ELSE DaysBefore(m - 1) + DaysInMonth(m - 1)

\* datetime.strptime(s, "%Y-%m-%d"): the day ordinal, or a ValueError.
strptime(s) ==
  IF IsDate(s) THEN [ok |-> TRUE, d |-> DaysBefore(s[2]) + s[3] - 1]
  ELSE [ok |-> FALSE, d |-> 0]

\* d.strftime("%Y-%m-%d")
strftime(d) ==
  LET m == CHOOSE k \in 1..12 : DaysBefore(k) <= d /\ d < DaysBefore(k) + DaysInMonth(k)
  IN  <<2024, m, d - DaysBefore(m) + 1>>

\* d + timedelta(days = n)
PlusDays(d, n) == d + n

\* ------------------------------------------------------- program data
ALL_FIELDS ==
  << "aux_raw", "calibrated", "daily", "data_errors", "deployment",
     "dsd_calibrated", "dsd_raw", "health", "health_daily", "hourly",
     "irrigation_runtime_daily", "irrigation_runtime_hourly", "local_hourly",
     "location_irrigation_forecast_daily", "network", "sentek_daily",
     "sentek_hourly" >>

BASE_URL == "https://api.arable.cloud/api/v2"
OK == 200
Limit == "5012"
EnvKey == "ARABLE_API_KEY"

\* f"data/{schema}": the service of a schema.
DataService(schema) == <<"data", schema>>
DevicesService == <<"devices">>

\* output_folder / f"{day}_{schema}.csv"
CsvName(day, schema) == [prefix |-> day, schema |-> schema, ext |-> "csv"]

\* ---------------------------------------------------------- the remote
\* The API server and the network are the environment.  A request whose
\* key is not the issued one is answered 401.  An authorised request is
\* answered with an error status, with a 200 whose body is no JSON, or with
\* a 200 carrying JSON: the device registry for "devices", the records of
\* one device for "data/<schema>" (none unless the remote stocks the schema).
Devices == {"A", "B"}
Registries == { <<>>, <<"A">>, <<"A", "B">>, <<"B", "A">> }
Record(dev, time) == [time |-> time, device |-> dev]
Records(dev) == { <<>>, <<Record(dev, 1)>>, <<Record(dev, 2), Record(dev, 1)>> }
StockedChoices ==
  { {}, {"aux_raw"}, {"daily", "hourly"}, {"calibrated", "sentek_hourly"} }

Json(v) == [kind |-> "json", text |-> v]
Garbage == [kind |-> "text"]
Response(status, body) == [status |-> status, body |-> body]
Items(reg) == [items |-> [i \in 1..Len(reg) |-> [name |-> reg[i]]]]

Authorised(req) == req.header = <<"apikey", Key(EnvKey)>>

RemoteResponses(req, stock) ==
  IF ~Authorised(req) THEN { Response(401, Garbage) }
  ELSE { Response(st, Garbage) : st \in {404, 500, OK} } \cup
       ( IF req.url[2] = DevicesService
           THEN { Response(OK, Json(Items(reg))) : reg \in Registries }
         ELSE IF req.url[2][1] = "data" /\ req.params # None
           THEN { Response(OK, Json(recs)) :
                    recs \in IF req.url[2][2] \in stock
                               THEN Records(req.params.device) ELSE { <<>> } }
         ELSE { Response(OK, Json(<<>>)) } )

\* --------------------------------------------------------------- state
VARIABLES
  today,        \* the calendar day the clock reads (datetime.now())
  environ,      \* os.environ["ARABLE_API"]: None when unset
  stocked,      \* the schemas the remote holds records for
  folder,       \* the names of the files in the output folder
  call,         \* the entry point invoked and its arguments
  pc,           \* the code location the program is at
  ret,          \* how the last completed function call ended
  g_start_time, \* gather_data: start_time
  si,           \* gather_data: position of the schema loop in ALL_FIELDS
  files,        \* gather_data: files
  schema,       \* get_data: schema
  devices,      \* get_data: devices
  start_time,   \* get_data: start_time
  end_time,     \* get_data: end_time
  dj,           \* get_data: position of the device loop in devices
  retvals,      \* get_data: retvals
  site,         \* get_response: which call site is waiting for it
  service,      \* get_response: service
  parameters,   \* get_response: parameters
  api_key,      \* get_response: api_key
  request,      \* the GET request in flight
  response,     \* the response to the last GET request
  csv,          \* the table the current pass of the schema loop handed to df.to_csv
  invoked,      \* history: the day the entry point was invoked
  folder0,      \* history: the folder's files when the entry point was invoked
  ngets,        \* history: GET requests sent by the current get_response call
  queried,      \* history: devices queried by the current get_data call
  got,          \* history: the non-empty record lists the current get_data call received
  attempted,    \* history: services gather_data has called get_data for
  yielded,      \* history: schemas of this run with a non-empty record list received
  enumFailed,   \* history: schemas attempted when a device enumeration was answered an error
  fetched       \* history: the days fetched by the CLI invocations so far

envVars == <<environ, stocked>>
gatherVars == <<g_start_time, si, files>>
dataVars == <<schema, devices, start_time, end_time, dj, retvals>>
reqVars == <<site, service, parameters, api_key, request, response, ngets>>
histVars == <<invoked, folder0, queried, got, attempted, yielded, enumFailed, fetched>>
vars == <<today, envVars, folder, call, pc, ret, gatherVars, dataVars, reqVars,
          csv, histVars>>

\* gather_data is on the call stack.
InGather == call.fn \in {"gather_data", "main"}

\* ------------------------------------------------------- get_response
\* A call site binds get_response's parameters; no request is in flight and
\* no call has ended yet.
CallGetResponse(svc, params, key, from) ==
  /\ service' = svc
  /\ parameters' = params
  /\ api_key' = key
  /\ site' = from
  /\ ngets' = 0
  /\ request' = None
  /\ response' = None
  /\ ret' = None
  /\ pc' = "gr_call"

\* os.environ["ARABLE_API"] when no key is given; the KeyError of an unset
\* variable is caught and reported with print, and api_key stays None.
ResolveKey(key, env) == IF key = None THEN env ELSE key

\* f"apikey {api_key}"
AuthHeader(key) == <<"apikey", key>>

\* Resolve the key and send the GET.
GetResponseSend ==
  /\ pc = "gr_call"
  /\ api_key' = ResolveKey(api_key, environ)
  /\ request' = [url |-> <<BASE_URL, service>>,
                 header |-> AuthHeader(api_key'),
                 params |-> parameters]
  /\ ngets' = ngets + 1
  /\ pc' = "gr_wait"
  /\ UNCHANGED <<today, envVars, folder, call, ret, gatherVars, dataVars,
                 site, service, parameters, response, csv, histVars>>

\* Variant: only the server's own errors raise.
RaisesOnServerError(status) == status >= 500

\* r.status_code != 200
Raises(status) == status # OK

\* json.loads(r.content)
json_loads(body) ==
  IF body.kind = "json" THEN Return(body.text) ELSE Raise("JSONDecodeError")

\* What get_response does with the response r.
GetResponseOutcome(r) ==
  IF Raises(r.status) THEN Raise("HTTPError") ELSE json_loads(r.body)

\* Where get_response returns to.
ReturnLabel(from) ==
  CASE from = "devices" -> "gdev_ret"
    [] from = "data" -> "gd_resp"
    [] OTHER -> "done"

\* The response arrives; get_response raises or returns.
GetResponseRecv ==
  /\ pc = "gr_wait"
  /\ \E r \in RemoteResponses(request, stocked) :
       /\ response' = r
       /\ ret' = GetResponseOutcome(r)
       /\ IF site = "data" /\ r.status = OK /\ r.body.kind = "json" /\ r.body.text # <<>>
            THEN /\ got' = Append(got, r.body.text)
                 /\ yielded' = yielded \cup {schema}
            ELSE UNCHANGED <<got, yielded>>
       /\ enumFailed' = IF site = "devices" /\ r.status # OK
                          THEN enumFailed \cup {Len(attempted)} ELSE enumFailed
  /\ pc' = ReturnLabel(site)
  /\ UNCHANGED <<today, envVars, folder, call, gatherVars, dataVars, site, service,
                 parameters, api_key, request, ngets, csv, invoked, folder0,
                 queried, attempted, fetched>>

\* ----------------------------------------------------------- get_data
\* Variant: get_data catches HTTP errors wherever they are raised and
\* returns None.
UncaughtUnlessHTTP(e) ==
  IF e = "HTTPError"
    THEN /\ ret' = Return(None)
         /\ pc' = IF InGather THEN "ga_resp" ELSE "done"
  ELSE /\ ret' = Raise(e)
       /\ pc' = "done"

\* An exception no frame catches ends the process: ret keeps it.
Uncaught(e) ==
  /\ ret' = Raise(e)
  /\ pc' = "done"

\* A caller binds get_data's parameters.
CallGetData(sch, devs, start, end) ==
  /\ schema' = sch
  /\ devices' = devs
  /\ start_time' = start
  /\ end_time' = end
  /\ dj' = 1
  /\ retvals' = <<>>
  /\ queried' = <<>>
  /\ got' = <<>>
  /\ pc' = "gd_start"

\* The time window: `if not start_time` reads the clock a first time; else a
\* string is parsed and a missing end_time becomes start_time.
GetDataStart ==
  /\ pc = "gd_start"
  /\ IF start_time = None
       THEN /\ start_time' = Dt(today)
            /\ pc' = "gd_now2"
            /\ UNCHANGED <<end_time, ret>>
     ELSE IF start_time.t = "str" /\ ~strptime(start_time.s).ok
       THEN /\ Uncaught("ValueError")
            /\ UNCHANGED <<start_time, end_time>>
     ELSE /\ start_time' = IF start_time.t = "str"
                             THEN Dt(strptime(start_time.s).d) ELSE start_time
          /\ end_time' = IF end_time = None THEN start_time' ELSE end_time
          /\ pc' = "gd_devices"
          /\ UNCHANGED ret
  /\ UNCHANGED <<today, envVars, folder, call, gatherVars, schema, devices, dj,
                 retvals, reqVars, csv, histVars>>

\* end_time = dt.datetime.now(): the second reading of the clock.
GetDataNow2 ==
  /\ pc = "gd_now2"
  /\ end_time' = Dt(today)
  /\ pc' = "gd_devices"
  /\ UNCHANGED <<today, envVars, folder, call, ret, gatherVars, schema, devices,
                 start_time, dj, retvals, reqVars, csv, histVars>>

\* Midnight passes between the two readings of the clock.
Midnight ==
  /\ pc = "gd_now2"
  /\ today < MaxDay
  /\ today' = today + 1
  /\ UNCHANGED <<envVars, folder, call, pc, ret, gatherVars, dataVars, reqVars,
                 csv, histVars>>

\* The device list: all the registered devices when none is given, a single
\* name as a list of one.
GetDataDevices ==
  /\ pc = "gd_devices"
  /\ IF devices = None
       THEN /\ CallGetResponse(DevicesService, None, None, "devices")
            /\ UNCHANGED devices
     ELSE /\ devices' = IF devices.t = "name" THEN List(<<devices.n>>) ELSE devices
          /\ pc' = "gd_loop"
          /\ UNCHANGED <<reqVars, ret>>
  /\ UNCHANGED <<today, envVars, folder, call, gatherVars, schema, start_time,
                 end_time, dj, retvals, csv, histVars>>

\* get_devices: the names of the items, or get_response's exception, which
\* neither get_devices nor get_data catches.
GetDevicesReturn ==
  /\ pc = "gdev_ret"
  /\ IF ret.kind = "raise"
       THEN /\ Uncaught(ret.exc)
            /\ UNCHANGED devices
     ELSE /\ devices' = List([i \in 1..Len(ret.value.items) |-> ret.value.items[i].name])
          /\ pc' = "gd_loop"
          /\ UNCHANGED ret
  /\ UNCHANGED <<today, envVars, folder, call, gatherVars, schema, start_time,
                 end_time, dj, retvals, reqVars, csv, histVars>>

\* The query of one device.
Query(dev, start, end) ==
  [device |-> dev, limit |-> Limit,
   start_time |-> <<strftime(start), "T00:00:00Z">>,
   end_time |-> <<strftime(end), "T23:59:59Z">>]

RECURSIVE ConcatReversed(_)
\* Variant: the tables are concatenated last to first.
ConcatReversed(tables) ==
  IF tables = <<>> THEN <<>> ELSE ConcatReversed(Tail(tables)) \o Head(tables)

RECURSIVE Concat(_)
\* pd.concat(retvals, axis=0)
Concat(tables) ==
  IF tables = <<>> THEN <<>> ELSE Head(tables) \o Concat(Tail(tables))

\* Variant: the concatenation is returned even when retvals is empty.
AlwaysTable(tables) == Table(Concat(tables))

\* pd.concat(retvals, axis=0) if retvals else None
GetDataResult(tables) == IF tables # <<>> THEN Table(Concat(tables)) ELSE None

\* The head of the device loop: query the next device, or return.
GetDataLoop ==
  /\ pc = "gd_loop"
  /\ IF dj <= Len(devices.l)
       THEN /\ CallGetResponse(schema, Query(devices.l[dj], start_time.d, end_time.d),
                               None, "data")
            /\ queried' = Append(queried, devices.l[dj])
     ELSE /\ ret' = Return(GetDataResult(retvals))
          /\ pc' = IF InGather THEN "ga_resp" ELSE "done"
          /\ UNCHANGED <<reqVars, queried>>
  /\ UNCHANGED <<today, envVars, folder, call, gatherVars, dataVars, csv, invoked,
                 folder0, got, attempted, yielded, enumFailed, fetched>>

\* df["timex"] = pd.to_datetime(df.time); df.set_index("timex")
Indexed(recs) ==
  [i \in 1..Len(recs) |->
     [timex |-> recs[i].time, time |-> recs[i].time, device |-> recs[i].device]]

\* except requests.HTTPError: continue
Caught(outcome) == outcome.kind = "raise" /\ outcome.exc = "HTTPError"

\* Variant: break, the loop ends at the first HTTP error.
Break(j, n) == n + 1

\* continue: the loop goes on with the device after position j of n.
Continue(j, n) == j + 1

\* The body of the device loop after get_response: an HTTP error and an
\* empty list skip the device, any other exception is not caught.
GetDataHandle ==
  /\ pc = "gd_resp"
  /\ IF Caught(ret)
       THEN /\ dj' = Continue(dj, Len(devices.l))
            /\ pc' = "gd_loop"
            /\ UNCHANGED <<retvals, ret>>
     ELSE IF ret.kind = "raise"
       THEN /\ Uncaught(ret.exc)
            /\ UNCHANGED <<dj, retvals>>
     ELSE /\ retvals' = IF Len(ret.value) = 0 THEN retvals
                        ELSE Append(retvals, Indexed(ret.value))
          /\ dj' = dj + 1
          /\ pc' = "gd_loop"
          /\ UNCHANGED ret
  /\ UNCHANGED <<today, envVars, folder, call, gatherVars, schema, devices,
                 start_time, end_time, reqVars, csv, histVars>>

\* -------------------------------------------------------- gather_data
\* A caller binds gather_data's start_time.
CallGatherData(start) ==
  /\ g_start_time' = start
  /\ si' = 1
  /\ files' = <<>>
  /\ pc' = "ga_start"

\* Variant: the day of the clock reading itself.
SameDay(now) == now

\* dt.datetime.now() - dt.timedelta(days=1)
Yesterday(now) == PlusDays(now, -1)

\* The day to fetch: yesterday when none is given, a string parsed.
GatherStart ==
  /\ pc = "ga_start"
  /\ IF g_start_time.t = "str" /\ ~strptime(g_start_time.s).ok
       THEN /\ Uncaught("ValueError")
            /\ UNCHANGED <<g_start_time, fetched>>
     ELSE /\ g_start_time' =
               CASE g_start_time = None -> Dt(Yesterday(today))
                 [] g_start_time.t = "str" -> Dt(strptime(g_start_time.s).d)
                 [] OTHER -> g_start_time
          /\ fetched' = Append(fetched, g_start_time'.d)
          /\ pc' = "ga_loop"
          /\ UNCHANGED ret
  /\ UNCHANGED <<today, envVars, folder, call, si, files, dataVars, reqVars, csv,
                 invoked, folder0, queried, got, attempted, yielded, enumFailed>>

\* The head of the schema loop: fetch the next schema, or return files.
GatherLoop ==
  /\ pc = "ga_loop"
  /\ IF si <= Len(ALL_FIELDS)
       THEN /\ CallGetData(DataService(ALL_FIELDS[si]), None, g_start_time, None)
            /\ attempted' = Append(attempted, DataService(ALL_FIELDS[si]))
            /\ csv' = None
            /\ UNCHANGED ret
     ELSE /\ ret' = Return(List(files))
          /\ pc' = "done"
          /\ UNCHANGED <<dataVars, queried, got, attempted, csv>>
  /\ UNCHANGED <<today, envVars, folder, call, gatherVars, reqVars, invoked,
                 folder0, yielded, enumFailed, fetched>>

\* if df is not None
Saves(df) == df # None

\* Variant: the schema loop ends at the first schema that gave no table.
AdvanceStopOnNone(i, df) == IF df = None THEN Len(ALL_FIELDS) + 1 ELSE i + 1

\* for schema in ALL_FIELDS: the position after i, whatever df was.
Advance(i, df) == i + 1

\* The body of the schema loop after get_data: a table is written to
\* <day>_<schema>.csv and the path appended to files.
GatherHandle ==
  /\ pc = "ga_resp"
  /\ LET df == ret.value
         loc == CsvName(strftime(g_start_time.d), ALL_FIELDS[si])
     IN  IF Saves(df)
           THEN /\ folder' = folder \cup {loc}
                /\ csv' = df
                /\ files' = Append(files, loc)
         ELSE UNCHANGED <<folder, csv, files>>
  /\ si' = Advance(si, ret.value)
  /\ pc' = "ga_loop"
  /\ UNCHANGED <<today, envVars, call, ret, g_start_time, dataVars, reqVars,
                 histVars>>

\* --------------------------------------------------------------- main
\* Path(folder).glob("*.csv")
Glob(dir) == { f \in dir : f.ext = "csv" }

\* f.name.split("_")[0]: a date string holds no "_", so the first part of
\* "<day>_<schema>.csv" is the day, whatever "_" the schema holds.
Prefix(f) == f.prefix

\* Variant: the first of the sorted dates is taken, not the last.
Earliest(dates) == CHOOSE d \in dates : \A e \in dates : d <= e

\* sorted(dates)[-1]
Latest(dates) == CHOOSE d \in dates : \A e \in dates : e <= d

\* dates[-1] + dt.timedelta(days=1)
ResumeDay(dates) == PlusDays(Latest(dates), 1)

\* The command line: an explicit date (kept as the string it was given as
\* when it does not parse), or the day after the latest day of the folder's
\* csv files, or gather_data's default when the folder holds none.
Main ==
  /\ pc = "main"
  /\ IF call.date # None
       THEN /\ CallGatherData(IF strptime(call.date.s).ok
                                THEN Dt(strptime(call.date.s).d) ELSE call.date)
            /\ UNCHANGED ret
     ELSE IF Glob(folder) = {}
       THEN /\ CallGatherData(None)
            /\ UNCHANGED ret
     ELSE IF \E f \in Glob(folder) : ~strptime(Prefix(f)).ok
       THEN /\ Uncaught("ValueError")
            /\ UNCHANGED gatherVars
     ELSE /\ CallGatherData(
               Dt(ResumeDay({ strptime(Prefix(f)).d : f \in Glob(folder) })))
          /\ UNCHANGED ret
  /\ UNCHANGED <<today, envVars, folder, call, dataVars, reqVars, csv, histVars>>

\* ------------------------------------------------------ specifications
\* The folders a run may find: empty, the files of one day, of two days, a
\* file that is no csv beside one that is, a csv not named for a day, and
\* no csv at all.
Folders ==
  { {},
    { CsvName(<<2024, 3, 1>>, "hourly"), CsvName(<<2024, 3, 1>>, "daily") },
    { CsvName(<<2024, 2, 28>>, "aux_raw"), CsvName(<<2024, 2, 29>>, "daily") },
    { CsvName(<<2024, 2, 29>>, "hourly"),
      [prefix |-> <<2024, 3, 5>>, schema |-> "hourly", ext |-> "txt"] },
    { CsvName(<<2024, 2, 28>>, "daily"), CsvName(<<0>>, "notes") },
    { [prefix |-> <<2024, 3, 1>>, schema |-> "daily", ext |-> "txt"] } }

\* The calls of the library and of the command line that are tried.
ResponseCalls ==
  { [fn |-> "get_response", service |-> svc, api_key |-> k] :
      svc \in { DevicesService, <<"schemas", "calibrated">> },
      k \in { None, Key("invalid_key"), Key(EnvKey) } }

DataCalls ==
  { [fn |-> "get_data", schema |-> DataService("local_hourly"), devices |-> dv,
     start_time |-> st, end_time |-> en] :
      dv \in { None, Name("A"), List(<<"B", "A">>), List(<<>>) },
      st \in { None, Str(<<2024, 3, 1>>), Str(<<2024, 2, 30>>), Dt(MinDay) },
      en \in { None, Dt(MaxDay) } }

GatherCalls ==
  { [fn |-> "gather_data", start_time |-> st] :
      st \in { None, Str(<<2024, 2, 29>>), Str(<<2024, 2, 30>>), Dt(MinDay) } }

MainCalls ==
  { [fn |-> "main", date |-> d] :
      d \in { None, Str(<<2024, 2, 29>>), Str(<<2024, 2, 30>>) } }

\* The state in which call c starts, in environment env with the clock at
\* day now, the remote stocking stock and the folder holding dir.
Start(c, now, env, stock, dir) ==
  /\ today = now
  /\ environ = env
  /\ stocked = stock
  /\ folder = dir
  /\ call = c
  /\ pc = CASE c.fn = "get_response" -> "gr_call"
            [] c.fn = "get_data" -> "gd_start"
            [] c.fn = "gather_data" -> "ga_start"
            [] OTHER -> "main"
  /\ ret = None
  /\ g_start_time = IF c.fn = "gather_data" THEN c.start_time ELSE None
  /\ si = 1
  /\ files = <<>>
  /\ schema = IF c.fn = "get_data" THEN c.schema ELSE <<>>
  /\ devices = IF c.fn = "get_data" THEN c.devices ELSE None
  /\ start_time = IF c.fn = "get_data" THEN c.start_time ELSE None
  /\ end_time = IF c.fn = "get_data" THEN c.end_time ELSE None
  /\ dj = 1
  /\ retvals = <<>>
  /\ site = "top"
  /\ service = IF c.fn = "get_response" THEN c.service ELSE <<>>
  /\ parameters = None
  /\ api_key = IF c.fn = "get_response" THEN c.api_key ELSE None
  /\ request = None
  /\ response = None
  /\ csv = None
  /\ invoked = now
  /\ folder0 = dir
  /\ ngets = 0
  /\ queried = <<>>
  /\ got = <<>>
  /\ attempted = <<>>
  /\ yielded = {}
  /\ enumFailed = {}
  /\ fetched = <<>>

Init ==
  \E now \in MinDay + 1 .. MaxDay - 1, env \in { None, Key(EnvKey) } :
    \/ \E c \in ResponseCalls : Start(c, now, env, {}, {})
    \/ \E c \in DataCalls, stock \in { {}, {"local_hourly"} } :
         Start(c, now, env, stock, {})
    \/ \E c \in GatherCalls, stock \in StockedChoices : Start(c, now, env, stock, {})
    \/ \E c \in MainCalls, stock \in StockedChoices, dir \in Folders :
         Start(c, now, env, stock, dir)

Next ==
  \/ GetResponseSend
  \/ GetResponseRecv
  \/ GetDataStart
  \/ GetDataNow2
  \/ Midnight
  \/ GetDataDevices
  \/ GetDevicesReturn
  \/ GetDataLoop
  \/ GetDataHandle
  \/ GatherStart
  \/ GatherLoop
  \/ GatherHandle
  \/ Main

Spec == Init /\ [][Next]_vars

\* Unattended operation: the command line is run again and again without a
\* date on the same folder, at most once per calendar day.
DayPasses ==
  /\ pc = "done"
  /\ today < MaxDay
  /\ today' = today + 1
  /\ UNCHANGED <<envVars, folder, call, pc, ret, gatherVars, dataVars, reqVars,
                 csv, histVars>>

\* The next run is a new process: it starts from the folder the earlier
\* runs left and nothing else.
NextInvocation ==
  /\ pc = "done"
  /\ invoked < today
  /\ pc' = "main"
  /\ ret' = None
  /\ g_start_time' = None
  /\ si' = 1
  /\ files' = <<>>
  /\ schema' = <<>>
  /\ devices' = None
  /\ start_time' = None
  /\ end_time' = None
  /\ dj' = 1
  /\ retvals' = <<>>
  /\ site' = "top"
  /\ service' = <<>>
  /\ parameters' = None
  /\ api_key' = None
  /\ request' = None
  /\ response' = None
  /\ csv' = None
  /\ invoked' = today
  /\ folder0' = folder
  /\ ngets' = 0
  /\ queried' = <<>>
  /\ got' = <<>>
  /\ attempted' = <<>>
  /\ yielded' = {}
  /\ enumFailed' = {}
  /\ UNCHANGED <<today, envVars, folder, call, fetched>>

InitCLI ==
  \E env \in { Key(EnvKey) }, stock \in { {}, {"daily", "hourly"} },
     dir \in { {}, { CsvName(<<2024, 2, 28>>, "hourly"),
                     CsvName(<<2024, 2, 28>>, "daily") } } :
    Start([fn |-> "main", date |-> None], MinDay + 1, env, stock, dir)

NextCLI ==
  \/ GetResponseSend
  \/ GetResponseRecv
  \/ GetDataStart
  \/ GetDataDevices
  \/ GetDevicesReturn
  \/ GetDataLoop
  \/ GetDataHandle
  \/ GatherStart
  \/ GatherLoop
  \/ GatherHandle
  \/ Main
  \/ DayPasses
  \/ NextInvocation

SpecCLI == InitCLI /\ [][NextCLI]_vars

\* ============================================================== claims
Range(seq) == { seq[i] : i \in 1..Len(seq) }

\* get_response has just raised or returned.
ResponseHandled ==
  \/ pc \in {"gdev_ret", "gd_resp"}
  \/ pc = "done" /\ call.fn = "get_response"

\* get_data has just returned (it did not raise).
DataReturned ==
  \/ pc = "ga_resp"
  \/ pc = "done" /\ call.fn = "get_data" /\ ret.kind = "return"

\* The rows of what get_data returned: none for None.
ReturnedRows == IF ret.value = None THEN <<>> ELSE ret.value.rows

\* gather_data has just returned its list of files.
GatherReturned == pc = "done" /\ InGather /\ ret.kind = "return"

\* A data query is in flight.
DataQuery == pc = "gr_wait" /\ site = "data"

\* The command line was run without a date.
AutoResume == call.fn = "main" /\ call.date = None

\* The csv files of a folder that are named for a day.
DayFiles(dir) == { f \in dir : f.ext = "csv" /\ IsDate(f.prefix) }

\* Date strings compared as calendar dates, and the day before and after
\* one, on the calendar itself.
DateLeq(a, b) ==
  \/ a[2] < b[2]
  \/ a[2] = b[2] /\ a[3] <= b[3]

NextDate(a) ==
  IF a[3] < DaysInMonth(a[2]) THEN <<a[1], a[2], a[3] + 1>> ELSE <<a[1], a[2] + 1, 1>>

PrevDate(a) ==
  IF a[3] > 1 THEN <<a[1], a[2], a[3] - 1>> ELSE <<a[1], a[2] - 1, DaysInMonth(a[2] - 1)>>

LatestPrefix(dir) ==
  (CHOOSE f \in DayFiles(dir) : \A g \in DayFiles(dir) : DateLeq(g.prefix, f.prefix)).prefix

\* C1: across the auto-resume runs of the command line on one folder, at
\* most one a day, no day is fetched by two runs and no day between the
\* first and the latest fetched day is left out, also when a run writes no
\* file or aborts.
C1_NoDayTwiceNoDaySkipped ==
  /\ \A i, j \in 1..Len(fetched) : i # j => fetched[i] # fetched[j]
  /\ \A i, j \in 1..Len(fetched) :
       \A d \in fetched[i]..fetched[j] : d \in Range(fetched)

\* C2: run without a date, the command line fetches the day after the
\* latest day a csv file of the folder is named for, whatever and however
\* many the files of that day are, and yesterday (of the day it is run) when
\* the folder holds no csv file; gather_data is called whenever every csv
\* file of the folder is named for a day.
C2_ResumeDay ==
  AutoResume =>
    /\ (pc # "main" /\ Glob(folder0) = DayFiles(folder0)) =>
         pc = "ga_start" \/ fetched # <<>>
    /\ pc = "ga_start" =>
         g_start_time = IF DayFiles(folder0) = {} THEN None
                        ELSE Dt(strptime(NextDate(LatestPrefix(folder0))).d)
    /\ fetched # <<>> =>
         strftime(fetched[1]) =
           IF DayFiles(folder0) = {} THEN PrevDate(strftime(invoked))
           ELSE NextDate(LatestPrefix(folder0))

C2_Witness ==
  /\ AutoResume
  /\ pc = "ga_loop"
  /\ Cardinality(DayFiles(folder0)) = 2
  /\ LatestPrefix(folder0) = <<2024, 3, 1>>
  /\ strftime(fetched[1]) = <<2024, 3, 2>>

\* C3: no GET request is ever sent with an unresolved key: without a key
\* argument and without ARABLE_API in the environment, get_response fails
\* before it sends anything.
C3_NoRequestWithoutKey ==
  pc = "gr_wait" => request.header # AuthHeader(None)

\* C4: get_response sends exactly one GET; a status other than 200 raises an
\* HTTP error and returns nothing; what is returned is the decoded JSON body
\* of a 200 response, unchanged.
C4_OneGetRaiseOrBody ==
  ResponseHandled =>
    /\ ngets = 1
    /\ response.status # OK => ret = Raise("HTTPError")
    /\ ret.kind = "return" => response.status = OK /\ response.body = Json(ret.value)

C4_Witness ==
  /\ pc = "done"
  /\ call.fn = "get_response"
  /\ response.status = 404
  /\ ret = Raise("HTTPError")
  /\ ngets = 1

\* The record a row of a returned table was made from.
Unindexed(row) == [time |-> row.time, device |-> row.device]

\* The record lists received so far, as one list.
GotRecords == Concat(got)

\* The devices that answered with records.
Answered == { got[k][1].device : k \in 1..Len(got) }

\* C5: get_data queries every device of the list exactly once, whichever of
\* them fail with an HTTP error, and returns exactly the rows of the devices
\* that answered with records: no row of another device, none lost and none
\* twice.
C5_EveryDeviceQueriedRowsOfAnswered ==
  DataReturned =>
    /\ queried = devices.l
    /\ Len(ReturnedRows) = Len(GotRecords)
    /\ \A r \in Range(GotRecords) : \E i \in 1..Len(ReturnedRows) : Unindexed(ReturnedRows[i]) = r
    /\ \A i \in 1..Len(ReturnedRows) : ReturnedRows[i].device \in Answered

C5_Witness ==
  /\ pc = "done"
  /\ call.fn = "get_data"
  /\ devices = List(<<"B", "A">>)
  /\ queried = <<"B", "A">>
  /\ response.status = OK
  /\ Len(got) = 1
  /\ Answered = {"A"}
  /\ ret.kind = "return"
  /\ Len(ret.value.rows) = 2

\* C6: no file without rows is written: get_data returns None when the
\* device list is empty or no device answered with records, every table it
\* returns and every table gather_data writes has a row, and gather_data
\* writes a file only for a schema some device answered with records for.
C6_NoEmptyFile ==
  /\ DataReturned =>
       /\ got = <<>> => ret.value = None
       /\ ret.value # None => Len(ret.value.rows) >= 1
  /\ csv # None => Len(csv.rows) >= 1
  /\ InGather =>
       /\ \A f \in Range(files) : DataService(f.schema) \in yielded
       /\ folder = folder0 \cup Range(files)

C6_Witness ==
  /\ pc = "ga_loop"
  /\ attempted = <<DataService("aux_raw"), DataService("calibrated"), DataService("daily")>>
  /\ queried # <<>>
  /\ yielded = {DataService("daily")}
  /\ Len(files) = 1
  /\ csv # None
  /\ Cardinality(folder) = Cardinality(folder0) + 1

\* The schemas of ALL_FIELDS, in order, that some device answered with records for.
YieldedFields ==
  LET Yielded(f) == DataService(f) \in yielded IN SelectSeq(ALL_FIELDS, Yielded)

\* C7: a schema that gave nothing does not stop gather_data: the schemas are
\* attempted in the order of ALL_FIELDS, each once, and a run that returns
\* has attempted all 17 and returns one file for each schema that gave
\* records, in that order, all named for the one day of the run.
C7_EverySchemaAttempted ==
  InGather =>
    /\ Len(attempted) <= Len(ALL_FIELDS)
    /\ \A i \in 1..Len(attempted) : attempted[i] = DataService(ALL_FIELDS[i])
    /\ GatherReturned =>
         /\ Len(attempted) = 17
         /\ ret.value = List([i \in 1..Len(YieldedFields) |->
                                CsvName(strftime(g_start_time.d), YieldedFields[i])])

C7_Witness ==
  /\ GatherReturned
  /\ Len(attempted) = 17
  /\ ret.value.l = <<CsvName(<<2024, 2, 29>>, "sentek_hourly")>>

\* C8: an HTTP error answered to the device enumeration is caught nowhere:
\* the run ends with that error, returns nothing, and attempts no schema
\* after the one whose enumeration failed.
C8_EnumerationErrorAborts ==
  enumFailed # {} =>
    /\ enumFailed = {Len(attempted)}
    /\ pc \in {"gdev_ret", "done"}
    /\ pc = "done" => ret = Raise("HTTPError")

C8_Witness ==
  /\ pc = "done"
  /\ InGather
  /\ enumFailed = {3}
  /\ Len(attempted) = 3
  /\ Len(files) = 1
  /\ ret = Raise("HTTPError")

\* The window was left to gather_data, or to get_data.
GatherDefault ==
  \/ call.fn = "gather_data" /\ call.start_time = None
  \/ AutoResume /\ Glob(folder0) = {}

DataDefault == call.fn = "get_data" /\ call.start_time = None

\* The window of the query in flight is the day d.
WindowIs(d) ==
  /\ request.params.start_time = <<d, "T00:00:00Z">>
  /\ request.params.end_time = <<d, "T23:59:59Z">>

\* C9 as claimed: with the window left unspecified, to gather_data or to
\* get_data, every query is for yesterday, 00:00:00Z to 23:59:59Z.
C9_AlwaysYesterday ==
  (DataQuery /\ (GatherDefault \/ DataDefault)) =>
    WindowIs(PrevDate(strftime(invoked)))

\* C9 as amended: gather_data without a start date queries yesterday,
\* 00:00:00Z to 23:59:59Z; get_data without a start time queries from
\* 00:00:00Z of the day of its first clock reading (today, not yesterday) to
\* 23:59:59Z of the day of its second, the same day unless midnight passed
\* in between.
C9_YesterdayOrToday ==
  DataQuery =>
    /\ GatherDefault => WindowIs(PrevDate(strftime(invoked)))
    /\ DataDefault =>
         /\ request.params.start_time = <<strftime(invoked), "T00:00:00Z">>
         /\ \E d \in invoked..today :
              request.params.end_time = <<strftime(d), "T23:59:59Z">>

C9_Witness ==
  /\ DataQuery
  /\ DataDefault
  /\ invoked = today
  /\ WindowIs(strftime(today))

\* The rows of a table that came from device dev.
RowsOf(rows, dev) == LET From(r) == r.device = dev IN SelectSeq(rows, From)

\* The position of device dev in the device list.
Position(dev) == CHOOSE i \in 1..Len(devices.l) : devices.l[i] = dev

\* C10: the table get_data returns holds the rows of an earlier device of
\* the list before those of a later one, and the rows of one device in the
\* order of its response; it is not sorted by timestamp.
C10_DeviceOrderResponseOrder ==
  DataReturned =>
    /\ \A i, j \in 1..Len(ReturnedRows) :
         i < j => Position(ReturnedRows[i].device) <= Position(ReturnedRows[j].device)
    /\ \A k \in 1..Len(got) :
         RowsOf(ReturnedRows, got[k][1].device) = Indexed(got[k])

C10_Witness ==
  /\ pc = "done"
  /\ call.fn = "get_data"
  /\ ret.kind = "return"
  /\ devices = List(<<"B", "A">>)
  /\ Len(got) = 2
  /\ Len(ret.value.rows) = 3
  /\ ret.value.rows[1].device = "B"
  /\ ret.value.rows[1].timex > ret.value.rows[2].timex
  /\ ret.value.rows[3].device = "A"

====
